---- MODULE Spec2Model ----
(***************************************************************************)
(* The input relay of examples/python/arduino_example.py: the KeyInput     *)
(* servicer (Init, SendMouse, Send, SendUp, SendDown), its timers_map of   *)
(* threading.Timer release timers and the frames it writes to the serial   *)
(* channel.                                                                *)
(*                                                                         *)
(* The gRPC server runs its handlers on ThreadPoolExecutor(max_workers=1): *)
(* one RPC handler runs at a time (variable call).  Every Timer is its own *)
(* thread and takes its steps (TimerFire, TimerExit) between and during    *)
(* the handlers; the only place a handler waits is the 80 ms settle sleep  *)
(* of SendMouse.  No lock guards serial.write or timers_map.               *)
(***************************************************************************)
EXTENDS Integers, Sequences, FiniteSets, TLC

\* ---------------------------------------------------------------- bounds
\* RPC calls served in one run.
MaxCalls == 2

\* ------------------------------------------------------- wire opcodes
KEY_DOWN == 1
KEY_UP == 2
MOUSE_MOVE == 3
MOUSE_CLICK == 4
MOUSE_SCROLL == 5

\* ------------------------------------------------- the Key enumeration
\* input_pb2.Key is generated from backend/proto/input.proto, which is not
\* among the sources.  A protobuf enum value is an int; the enumeration is
\* numbered from 0 in the order keys_map lists its members (A = 0, ...,
\* Zero = 26, ..., Six = 32, ..., Space = 60).  The model keeps three
\* members of the table.
KeyA == 0
KeySix == 32
KeySpace == 60
\* An enumerator beyond the 70 entries of keys_map (the enumeration has 76).
KeyUnmapped == 70
\* A proto3 enum field is open: it carries any int32.  97 is no enumerator,
\* and it is the device code of Key.A.
KeyOutOfEnum == 97

TableKeys == {KeyA, KeySix, KeySpace}
KeyIds == TableKeys \cup {KeyUnmapped, KeyOutOfEnum}

\* The values of the keys_map literal, in the order it lists its entries:
\* letters, digits, F1..F12, navigation and controls, modifiers,
\* punctuation.  Entry i + 1 belongs to the Key numbered i.
KeyCodes ==
  <<
     97, 98, 99, 100, 101, 102, 103, 104, 105, 106,
     107, 108, 109, 110, 111, 112, 113, 114, 115, 116,
     117, 118, 119, 120, 121, 122, 48, 49, 50, 51,
     52, 53, 54, 55, 56, 57, 194, 195, 196, 197,
     198, 199, 200, 201, 202, 203, 204, 205, 218, 217,
     216, 215, 210, 213, 211, 214, 209, 212, 177, 224,
     32, 128, 129, 130, 96, 39, 59, 44, 46, 47 >>

\* The Key enumeration has 76 members (spec section 3), numbered from 0.
KeyEnumSize == 76
KeyEnum == 0..(KeyEnumSize - 1)

\* keys_map: Key -> device code (the entries for A, Six and Space).
keys_map == [k \in TableKeys |-> KeyCodes[k + 1]]

Codes == {keys_map[k] : k \in TableKeys}

\* Every int used as a dict key of timers_map: Send indexes it by device
\* code, SendUp and SendDown by request.key.
Slots == Codes \cup KeyIds

\* ------------------------------------------------------------- inputs
Durations == {50, 100}
Seeds == {"", "test_seed_komari_macos_12345678"}
MouseActions == {"Move", "Click", "ScrollDown"}
\* pyautogui.position() at the time of a SendMouse call.
Cursors == {<<500, 400>>, <<0, 0>>}
TargetXs == {683, 33267}
TargetYs == {384, -32368, -40000}

None == 0

VARIABLES
  wire,        \* the frames written to the serial channel, one per write()
  timers,      \* every Timer created so far, in creation order
  timers_map,  \* self.timers_map: slot -> index into timers, or None
  call,        \* the worker thread: idle, or inside SendMouse's settle sleep
  last,        \* the last step taken and, for an RPC, what it returned
  ncalls,      \* RPC calls served so far
  faults,      \* whether a write to an open port may raise
  main,        \* __main__: where it stands, and its serial_conn
  serial       \* self.serial: what the constructor was given

vars == <<wire, timers, timers_map, call, last, ncalls, faults, main, serial>>

\* ------------------------------------------------------------ encoding
\* int.to_bytes(2, byteorder='little', signed=True): two's complement, low
\* byte first.  Defined for -32768..32767; outside it Python raises
\* OverflowError (Fits16 is the test).
Fits16(v) == v >= -32768 /\ v <= 32767

\* A different byte order: high byte first.
to_bytes_big(v) ==
  LET u == IF v < 0 THEN v + 65536 ELSE v
  IN <<u \div 256, u % 256>>

to_bytes(v) ==
  LET u == IF v < 0 THEN v + 65536 ELSE v
  IN <<u % 256, u \div 256>>

\* bytes([MOUSE_MOVE]) + dx_bytes + dy_bytes
MoveFrame(dx, dy) == <<MOUSE_MOVE>> \o to_bytes(dx) \o to_bytes(dy)

\* bytes([MOUSE_SCROLL]) + int(1000).to_bytes(2, 'little', signed=True)
ScrollFrame == <<MOUSE_SCROLL>> \o to_bytes(1000)

ClickFrame == <<MOUSE_CLICK>>

KeyDownFrame(code) == <<KEY_DOWN, code>>

KeyUpFrame(code) == <<KEY_UP, code>>

\* ------------------------------------------------------------- timers
\* A Timer thread is "waiting" from start() until its interval has passed,
\* "fired" once its function has written the key-up and until run()
\* returns, then "dead".  Thread.is_alive() is true in the first two.
is_alive(t) == timers[t].st \in {"waiting", "fired"}

\* The test with its `not` dropped: a live timer counts as none.
NoLiveTimer_inverted(slot) ==
  timers_map[slot] = None \/ timers[timers_map[slot]].st \in {"waiting", "fired"}

\* The test left out: every call finds the slot free.
NoLiveTimer_unchecked(slot) == TRUE

\* `timer is None or not timer.is_alive()`
NoLiveTimer(slot) == timers_map[slot] = None \/ ~is_alive(timers_map[slot])

\* The outcomes a self.serial.write can have.  The serial module has no
\* write attribute: with it every write raises AttributeError.
WriteOutcomes ==
  IF serial = "module" THEN {FALSE}
  ELSE IF faults THEN {TRUE, FALSE} ELSE {TRUE}

Idle == [pc |-> "idle", action |-> "-", moveIdx |-> 0]

\* What `last` records of a step: the operation, its request fields and
\* the cursor position it read, and what it returned or raised.
Step(op, key, ms, x, y, cur, action, reply) ==
  [op |-> op, key |-> key, ms |-> ms, seed |-> "", x |-> x, y |-> y,
   cx |-> cur[1], cy |-> cur[2], action |-> action, reply |-> reply]

KeyStep(op, key, ms, reply) == Step(op, key, ms, 0, 0, <<0, 0>>, "-", reply)

\* ---------------------------------------------------------------- Init
\* The server is up with a KeyInput built over an open serial.Serial, the
\* type its constructor declares.
Serving == [pc |-> "serving", serial_conn |-> "port"]

\* KeyInput.__init__: no timer, nothing written.
Init ==
  /\ wire = <<>>
  /\ timers = <<>>
  /\ timers_map = [s \in Slots |-> None]
  /\ call = Idle
  /\ last = KeyStep("-", -1, 0, "-")
  /\ ncalls = 0
  /\ faults = FALSE
  /\ main = Serving
  /\ serial = "port"

\* The same object over a serial link whose writes may raise.
InitFaulty ==
  /\ wire = <<>>
  /\ timers = <<>>
  /\ timers_map = [s \in Slots |-> None]
  /\ call = Idle
  /\ last = KeyStep("-", -1, 0, "-")
  /\ ncalls = 0
  /\ faults \in BOOLEAN
  /\ main = Serving
  /\ serial = "port"

\* The process at the top of __main__: no port looked for yet, no KeyInput.
InitMain ==
  /\ wire = <<>>
  /\ timers = <<>>
  /\ timers_map = [s \in Slots |-> None]
  /\ call = Idle
  /\ last = KeyStep("-", -1, 0, "-")
  /\ ncalls = 0
  /\ faults = FALSE
  /\ main = [pc |-> "start", serial_conn |-> "unset"]
  /\ serial = "unset"

\* ------------------------------------------------------------ __main__
\* A start-up that gives up when the device cannot be opened.
OpenDevice_failFast(opened) ==
  /\ main.pc = "start"
  /\ main' = IF opened THEN [pc |-> "opened", serial_conn |-> "port"]
                       ELSE [pc |-> "exit", serial_conn |-> "None"]
  /\ last' = KeyStep("OpenDevice", -1, 0, IF opened THEN "ok" ELSE "exit")
  /\ UNCHANGED <<wire, timers, timers_map, call, ncalls, faults, serial>>

\* Lines 109-145: serial.Serial(port) on the port found.  With no port
\* found, or when opening raises, serial_conn is None and the process
\* prints that it runs in test mode.
OpenDevice(opened) ==
  /\ main.pc = "start"
  /\ main' = [pc |-> "opened",
              serial_conn |-> IF opened THEN "port" ELSE "None"]
  /\ last' = KeyStep("OpenDevice", -1, 0, IF opened THEN "ok" ELSE "test mode")
  /\ UNCHANGED <<wire, timers, timers_map, call, ncalls, faults, serial>>

\* Lines 231-236: KeyInput(keys_map, serial) is given the serial module,
\* not serial_conn; server.start().
StartServer ==
  /\ main.pc = "opened"
  /\ main' = [main EXCEPT !.pc = "serving"]
  /\ serial' = "module"
  /\ last' = KeyStep("StartServer", -1, 0, "-")
  /\ UNCHANGED <<wire, timers, timers_map, call, ncalls, faults>>

CanServe == main.pc = "serving" /\ call.pc = "idle" /\ ncalls < MaxCalls

\* -------------------------------------------------------- KeyInput.Init
\* A handler that picks the coordinate mode from the seed.
KeyInit_bySeed(seed) ==
  /\ CanServe
  /\ ncalls' = ncalls + 1
  /\ last' = [KeyStep("Init", -1, 0, IF seed = "" THEN "Screen" ELSE "Relative")
                EXCEPT !.seed = seed]
  /\ UNCHANGED <<wire, timers, timers_map, call, faults, main, serial>>

\* request.seed is never read.
KeyInit(seed) ==
  /\ CanServe
  /\ ncalls' = ncalls + 1
  /\ last' = [KeyStep("Init", -1, 0, "Screen") EXCEPT !.seed = seed]
  /\ UNCHANGED <<wire, timers, timers_map, call, faults, main, serial>>

\* -------------------------------------------------------- KeyInput.Send
\* The slot of timers_map that Send reads and writes: the device code.
SendSlot(k) == keys_map[k]

Send(k, d, ok) ==
  /\ CanServe
  /\ ncalls' = ncalls + 1
  /\ UNCHANGED <<call, faults, main, serial>>
  /\ IF k \notin DOMAIN keys_map
       THEN \* self.keys_map[request.key] raises KeyError
            /\ last' = KeyStep("Send", k, d, "KeyError")
            /\ UNCHANGED <<wire, timers, timers_map>>
       ELSE LET key == keys_map[k]
            IN IF NoLiveTimer(SendSlot(k))
                 THEN IF ok
                        THEN /\ wire' = Append(wire, KeyDownFrame(key))
                             /\ timers' = Append(timers,
                                   [code |-> key, interval |-> d,
                                    st |-> "waiting",
                                    downIdx |-> Len(wire) + 1, upIdx |-> 0])
                             /\ timers_map' =
                                   [timers_map EXCEPT ![SendSlot(k)] = Len(timers) + 1]
                             /\ last' = KeyStep("Send", k, d, "ok")
                        ELSE \* the write raised: no Timer is created
                             /\ last' = KeyStep("Send", k, d, "WriteError")
                             /\ UNCHANGED <<wire, timers, timers_map>>
                 ELSE /\ last' = KeyStep("Send", k, d, "ok")
                      /\ UNCHANGED <<wire, timers, timers_map>>

\* ------------------------------------------- KeyInput.SendUp / SendDown
\* The slot of timers_map that SendUp and SendDown read: request.key.
ExplicitSlot(k) == k

\* Handlers that cancel the pending release they find in the slot.
Explicit_cancels(op, opcode, k, ok) ==
  /\ CanServe
  /\ ncalls' = ncalls + 1
  /\ UNCHANGED <<timers_map, call, faults, main, serial>>
  /\ IF NoLiveTimer(ExplicitSlot(k))
       THEN /\ timers' = timers
            /\ IF k \notin DOMAIN keys_map
                 THEN /\ last' = KeyStep(op, k, 0, "KeyError")
                      /\ wire' = wire
                 ELSE IF ok
                        THEN /\ wire' = Append(wire, <<opcode, keys_map[k]>>)
                             /\ last' = KeyStep(op, k, 0, "ok")
                        ELSE /\ wire' = wire
                             /\ last' = KeyStep(op, k, 0, "WriteError")
       ELSE /\ wire' = wire
            /\ timers' = [timers EXCEPT ![timers_map[ExplicitSlot(k)]].st = "dead"]
            /\ last' = KeyStep(op, k, 0, "ok")

\* Both handlers have the same shape; opcode is KEY_UP or KEY_DOWN.
Explicit(op, opcode, k, ok) ==
  /\ CanServe
  /\ ncalls' = ncalls + 1
  /\ UNCHANGED <<timers, timers_map, call, faults, main, serial>>
  /\ IF NoLiveTimer(ExplicitSlot(k))
       THEN IF k \notin DOMAIN keys_map
              THEN \* self.keys_map[key] raises KeyError inside the write
                   /\ last' = KeyStep(op, k, 0, "KeyError")
                   /\ wire' = wire
              ELSE IF ok
                     THEN /\ wire' = Append(wire, <<opcode, keys_map[k]>>)
                          /\ last' = KeyStep(op, k, 0, "ok")
                     ELSE /\ wire' = wire
                          /\ last' = KeyStep(op, k, 0, "WriteError")
       ELSE /\ wire' = wire
            /\ last' = KeyStep(op, k, 0, "ok")

SendUp(k, ok) == Explicit("SendUp", KEY_UP, k, ok)

SendDown(k, ok) == Explicit("SendDown", KEY_DOWN, k, ok)

\* --------------------------------------------------- KeyInput.SendMouse
\* Up to the first write: both deltas are encoded before anything is
\* written, so an OverflowError leaves the channel untouched.
SendMouse(x, y, action, cur, ok) ==
  /\ CanServe
  /\ ncalls' = ncalls + 1
  /\ UNCHANGED <<timers, timers_map, faults, main, serial>>
  /\ LET dx == x - cur[1]
         dy == y - cur[2]
     IN IF ~(Fits16(dx) /\ Fits16(dy))
          THEN /\ last' = Step("SendMouse", -1, 0, x, y, cur, action, "OverflowError")
               /\ UNCHANGED <<wire, call>>
          ELSE IF ~ok
                 THEN /\ last' = Step("SendMouse", -1, 0, x, y, cur, action, "WriteError")
                      /\ UNCHANGED <<wire, call>>
                 ELSE /\ wire' = Append(wire, MoveFrame(dx, dy))
                      /\ IF action = "Move"
                           THEN /\ call' = call
                                /\ last' = Step("SendMouse", -1, 0, x, y, cur, action, "ok")
                           ELSE \* time.sleep(0.08)
                                /\ call' = [pc |-> "settle", action |-> action,
                                            moveIdx |-> Len(wire) + 1]
                                /\ last' = Step("SendMouse", -1, 0, x, y, cur, action, "settling")

\* After the sleep: the click or the scroll frame.
SendMouseSettled(ok) ==
  /\ call.pc = "settle"
  /\ call' = Idle
  /\ wire' = IF ~ok THEN wire
             ELSE IF call.action = "Click" THEN Append(wire, ClickFrame)
             ELSE Append(wire, ScrollFrame)
  /\ last' = [last EXCEPT !.op = "SendMouseSettled",
                          !.reply = IF ok THEN "ok" ELSE "WriteError"]
  /\ UNCHANGED <<timers, timers_map, ncalls, faults, main, serial>>

\* ------------------------------------------------------- Timer threads
\* A firing whose failed write leaves the timer counted as live for good.
TimerFire_keepsLive(t, ok) ==
  /\ timers[t].st = "waiting"
  /\ IF ok
       THEN /\ wire' = Append(wire, KeyUpFrame(timers[t].code))
            /\ timers' = [timers EXCEPT ![t].st = "fired",
                                        ![t].upIdx = Len(wire) + 1]
       ELSE /\ wire' = wire
            /\ timers' = [timers EXCEPT ![t].st = "stuck"]
  /\ last' = KeyStep("TimerFire", t, 0, IF ok THEN "ok" ELSE "WriteError")
  /\ UNCHANGED <<timers_map, call, ncalls, faults, main, serial>>

\* A timer that is cancelled instead of run: it ends without a write.
TimerFire_cancelled(t, ok) ==
  /\ timers[t].st = "waiting"
  /\ wire' = wire
  /\ timers' = [timers EXCEPT ![t].st = "dead"]
  /\ last' = KeyStep("TimerFire", t, 0, "cancelled")
  /\ UNCHANGED <<timers_map, call, ncalls, faults, main, serial>>

\* The interval has passed: the lambda writes the key-up.  When the write
\* raises, the exception ends the thread at once.
TimerFire(t, ok) ==
  /\ timers[t].st = "waiting"
  /\ IF ok
       THEN /\ wire' = Append(wire, KeyUpFrame(timers[t].code))
            /\ timers' = [timers EXCEPT ![t].st = "fired",
                                        ![t].upIdx = Len(wire) + 1]
       ELSE /\ wire' = wire
            /\ timers' = [timers EXCEPT ![t].st = "dead"]
  /\ last' = KeyStep("TimerFire", t, 0, IF ok THEN "ok" ELSE "WriteError")
  /\ UNCHANGED <<timers_map, call, ncalls, faults, main, serial>>

\* Timer.run returns and the thread ends.
TimerExit(t) ==
  /\ timers[t].st = "fired"
  /\ timers' = [timers EXCEPT ![t].st = "dead"]
  /\ last' = KeyStep("TimerExit", t, 0, "-")
  /\ UNCHANGED <<wire, timers_map, call, ncalls, faults, main, serial>>

\* ---------------------------------------------------------------- Next
Next ==
  \/ \E seed \in Seeds : KeyInit(seed)
  \/ \E k \in KeyIds, d \in Durations, ok \in WriteOutcomes : Send(k, d, ok)
  \/ \E k \in KeyIds, ok \in WriteOutcomes : SendUp(k, ok)
  \/ \E k \in KeyIds, ok \in WriteOutcomes : SendDown(k, ok)
  \/ \E x \in TargetXs, y \in TargetYs, a \in MouseActions, cur \in Cursors,
        ok \in WriteOutcomes : SendMouse(x, y, a, cur, ok)
  \/ \E ok \in WriteOutcomes : SendMouseSettled(ok)
  \/ \E t \in DOMAIN timers, ok \in WriteOutcomes : TimerFire(t, ok)
  \/ \E t \in DOMAIN timers : TimerExit(t)

Spec == Init /\ [][Next]_vars

SpecFaulty == InitFaulty /\ [][Next]_vars

\* A started Timer thread is scheduled: once its interval has passed it
\* runs its function, and once the function has returned the thread ends.
\* No more than MaxCalls timers are ever created.
TimerFairness ==
  \A t \in 1..MaxCalls :
    /\ WF_vars(t \in DOMAIN timers /\ \E ok \in WriteOutcomes : TimerFire(t, ok))
    /\ WF_vars(t \in DOMAIN timers /\ TimerExit(t))

SpecLive == Init /\ [][Next]_vars /\ TimerFairness

\* The process from the top of __main__.  The KeyInput it builds writes to
\* the serial module, so no write succeeds: no Timer is ever created and no
\* SendMouse reaches its settle sleep, and the steps of the timers and of
\* the settled SendMouse, which can never be taken, are left out.
NextMain ==
  \/ \E opened \in BOOLEAN : OpenDevice(opened)
  \/ StartServer
  \/ \E seed \in Seeds : KeyInit(seed)
  \/ \E k \in KeyIds, d \in Durations, ok \in WriteOutcomes : Send(k, d, ok)
  \/ \E k \in KeyIds, ok \in WriteOutcomes : SendUp(k, ok)
  \/ \E k \in KeyIds, ok \in WriteOutcomes : SendDown(k, ok)
  \/ \E x \in TargetXs, y \in TargetYs, a \in MouseActions, cur \in Cursors,
        ok \in WriteOutcomes : SendMouse(x, y, a, cur, ok)

SpecMain == InitMain /\ [][NextMain]_vars

\* A client whose only key command is SendKey: it never calls SendKeyUp or
\* SendKeyDown.  Mouse commands and Init are still issued, and the timers
\* run as in Next.
NextSendOnly ==
  \/ \E seed \in Seeds : KeyInit(seed)
  \/ \E k \in KeyIds, d \in Durations, ok \in WriteOutcomes : Send(k, d, ok)
  \/ \E x \in TargetXs, y \in TargetYs, a \in MouseActions, cur \in Cursors,
        ok \in WriteOutcomes : SendMouse(x, y, a, cur, ok)
  \/ \E ok \in WriteOutcomes : SendMouseSettled(ok)
  \/ \E t \in DOMAIN timers, ok \in WriteOutcomes : TimerFire(t, ok)
  \/ \E t \in DOMAIN timers : TimerExit(t)

SpecSendOnly == Init /\ [][NextSendOnly]_vars

\* =====================================================================
\* Properties
\* =====================================================================
\* The timers of device code c that have not yet written their key-up.
Waiting(c) == {t \in DOMAIN timers : timers[t].code = c /\ timers[t].st = "waiting"}

\* The timers of device code c whose thread has not ended.
Live(c) == {t \in DOMAIN timers : timers[t].code = c /\ timers[t].st # "dead"}

\* A key-down or key-up frame for device code c.
IsKeyFrameFor(f, c) == Len(f) = 2 /\ f[1] \in {KEY_DOWN, KEY_UP} /\ f[2] = c

\* The step just taken is the RPC handler op.
Served(op) == last'.op = op /\ ncalls' = ncalls + 1

\* C1: a timed press of a key with no live timer writes one KeyDown at the
\* call and one KeyUp when its timer fires, and between the two no other
\* frame for that code is written, whatever commands for the key arrive
\* meanwhile.  Per timer: its KeyDown is at downIdx, its KeyUp (once fired)
\* at upIdx, and no key frame for its code lies after downIdx and before
\* upIdx (before the end of the wire while it has not fired).
C1_TimedPressUninterrupted ==
  \A t \in DOMAIN timers :
    LET c == timers[t].code
        hi == IF timers[t].upIdx # 0 THEN timers[t].upIdx - 1 ELSE Len(wire)
    IN /\ wire[timers[t].downIdx] = <<KEY_DOWN, c>>
       /\ timers[t].upIdx # 0 => wire[timers[t].upIdx] = <<KEY_UP, c>>
       /\ timers[t].st = "waiting" => timers[t].upIdx = 0
       /\ \A i \in (timers[t].downIdx + 1)..hi : ~IsKeyFrameFor(wire[i], c)

\* C2: a further SendKey(K, d2) while K's timer has not fired writes
\* nothing, creates no timer, changes no timer (its interval included) and
\* leaves timers_map as it is.
C2_SendWhileHeldIsNoOp ==
  [][(/\ Served("Send")
      /\ last'.key \in TableKeys
      /\ Waiting(keys_map[last'.key]) # {})
     => (/\ wire' = wire
         /\ timers' = timers
         /\ timers_map' = timers_map
         /\ last'.reply = "ok")]_vars

\* A second SendKey for the held key, with another duration, was served
\* while the first timer was still waiting.
C2_Witness ==
  /\ last.op = "Send" /\ last.key = KeyA /\ last.reply = "ok"
  /\ ncalls = 2
  /\ Len(timers) = 1
  /\ timers[1].code = 97 /\ timers[1].st = "waiting"
  /\ timers[1].interval # last.ms
  /\ wire = << <<KEY_DOWN, 97>> >>

\* C3: SendKeyUp(K) writes exactly one KeyUp(code(K)) when K has no live
\* timer and nothing while a timer armed by SendKey(K, d) has not fired.
C3_ExplicitUp ==
  [][(Served("SendUp") /\ last'.key \in TableKeys)
     => LET c == keys_map[last'.key]
        IN /\ Live(c) = {} => wire' = Append(wire, <<KEY_UP, c>>)
           /\ Waiting(c) # {} => wire' = wire]_vars

\* C4: SendKeyDown(K) writes exactly one KeyDown(code(K)) when K has no
\* live timer and nothing while a timer armed by SendKey(K, d) has not
\* fired.
C4_ExplicitDown ==
  [][(Served("SendDown") /\ last'.key \in TableKeys)
     => LET c == keys_map[last'.key]
        IN /\ Live(c) = {} => wire' = Append(wire, <<KEY_DOWN, c>>)
           /\ Waiting(c) # {} => wire' = wire]_vars

\* C5: in every reachable state each device code has at most one live
\* (started, thread not yet ended) release timer.
C5_OneLiveTimerPerCode ==
  \A c \in Codes : Cardinality(Live(c)) <= 1

\* A code was pressed again after its first timer ended: one dead timer and
\* one live timer for the same code.
C5_Witness ==
  \E c \in Codes :
    /\ Cardinality(Live(c)) = 1
    /\ \E t \in DOMAIN timers : timers[t].code = c /\ timers[t].st = "dead"

\* C6: SendKey, SendKeyUp and SendKeyDown with a key id that is not in
\* the Key Table fail with UnknownKey (Python's KeyError), write nothing
\* and leave the timers alone, in every state of the timers.
C6_UnknownKeyRejected ==
  [][((Served("Send") \/ Served("SendUp") \/ Served("SendDown"))
      /\ last'.key \notin TableKeys)
     => (/\ last'.reply = "KeyError"
         /\ wire' = wire
         /\ timers' = timers
         /\ timers_map' = timers_map)]_vars

\* C7: SendMouse(Click) writes its MouseMove frame and then its MouseClick
\* frame with no other write between the two: while the handler sleeps
\* nothing is added to the wire, and the click lands right after the move.
C7_ClickNotInterleaved ==
  /\ (call.pc = "settle" /\ call.action = "Click") => Len(wire) = call.moveIdx
  /\ (last.op = "SendMouseSettled" /\ last.action = "Click")
       => /\ Len(wire) >= 2
          /\ wire[Len(wire)] = <<MOUSE_CLICK>>
          /\ wire[Len(wire) - 1][1] = MOUSE_MOVE

\* Saturation to the signed 16-bit range.
Saturate16(v) == IF v > 32767 THEN 32767 ELSE IF v < -32768 THEN -32768 ELSE v

\* A MouseMove frame is well formed, and carries (dx, dy), when it is the
\* opcode and four bytes that decode, low byte first and two's complement,
\* to dx and dy.
Signed16(lo, hi) ==
  LET u == lo + 256 * hi IN IF u >= 32768 THEN u - 65536 ELSE u

MoveFrameCarries(f, dx, dy) ==
  /\ Len(f) = 5
  /\ f[1] = 3
  /\ \A i \in 2..5 : f[i] \in 0..255
  /\ Signed16(f[2], f[3]) = dx
  /\ Signed16(f[4], f[5]) = dy

\* C8: for every cursor position and target, those whose deltas leave
\* -32768..32767 included, SendMouse does not fail and its first write is a
\* well-formed MouseMove frame that carries the deltas saturated to int16.
C8_DeltaSaturates ==
  [][Served("SendMouse")
     => (/\ last'.reply \in {"ok", "settling"}
         /\ Len(wire') = Len(wire) + 1
         /\ MoveFrameCarries(wire'[Len(wire')],
                             Saturate16(last'.x - last'.cx),
                             Saturate16(last'.y - last'.cy)))]_vars

\* C9: when both deltas fit in int16, SendMouse(Move) makes exactly one
\* write, of 5 bytes: opcode 3, dx then dy as 16-bit two's complement, low
\* byte first; cursor (500,400) and target (683,384) give 03 B7 00 F0 FF.
C9_MoveFrame ==
  [][(/\ Served("SendMouse")
      /\ last'.action = "Move"
      /\ last'.x - last'.cx \in -32768..32767
      /\ last'.y - last'.cy \in -32768..32767)
     => (/\ last'.reply = "ok"
         /\ call' = call
         /\ Len(wire') = Len(wire) + 1
         /\ SubSeq(wire', 1, Len(wire)) = wire
         /\ MoveFrameCarries(wire'[Len(wire')],
                             last'.x - last'.cx, last'.y - last'.cy)
         /\ (last'.x = 683 /\ last'.y = 384 /\ last'.cx = 500 /\ last'.cy = 400)
              => wire'[Len(wire')] = <<3, 183, 0, 240, 255>>)]_vars

\* The scenario's move has been served: cursor (500,400), target (683,384).
C9_Witness ==
  /\ last.op = "SendMouse" /\ last.action = "Move" /\ last.reply = "ok"
  /\ last.x = 683 /\ last.y = 384 /\ last.cx = 500 /\ last.cy = 400
  /\ wire[Len(wire)] = <<3, 183, 0, 240, 255>>
  /\ call.pc = "idle"

\* C10: Init returns coordinate mode Screen whatever the seed, writes
\* nothing and leaves the timers alone.
C10_InitPure ==
  [][Served("Init")
     => (/\ last'.reply = "Screen"
         /\ wire' = wire
         /\ timers' = timers
         /\ timers_map' = timers_map
         /\ call' = call)]_vars

\* Init was served with a non-empty seed while a key was held by a timer.
C10_Witness ==
  /\ last.op = "Init" /\ last.seed # "" /\ last.reply = "Screen"
  /\ \E c \in Codes : Waiting(c) # {}
  /\ wire # <<>>

\* C11: when the KeyDown write of SendKey(K, d) fails (K having no live
\* timer) the caller gets a failed ack and the bookkeeping is updated as if
\* the write had happened: a release timer for K is armed and filed in
\* timers_map.
C11_FailedDownStillArms ==
  [][(/\ Served("Send")
      /\ last'.key \in TableKeys
      /\ Live(keys_map[last'.key]) = {}
      /\ wire' = wire)
     => LET c == keys_map[last'.key]
        IN /\ last'.reply = "WriteError"
           /\ Len(timers') = Len(timers) + 1
           /\ timers'[Len(timers')].code = c
           /\ timers'[Len(timers')].st = "waiting"
           /\ timers_map'[c] = Len(timers')]_vars

\* C12: the Key Table is total over the 76 members of the Key enumeration
\* and one-to-one: it has 76 entries, every Key resolves to one one-byte
\* code (so no key command for a member of the enumeration fails to resolve
\* its key), and no two Keys share a code.
C12_TableTotalAndInjective ==
  /\ Len(KeyCodes) = 76
  /\ \A k \in KeyEnum : k + 1 \in DOMAIN KeyCodes /\ KeyCodes[k + 1] \in 0..255
  /\ \A i, j \in DOMAIN KeyCodes : KeyCodes[i] = KeyCodes[j] => i = j
  /\ (last.op \in {"Send", "SendUp", "SendDown"} /\ last.key \in KeyEnum)
       => last.reply # "KeyError"

\* C13: if the device cannot be found or opened at startup the service
\* fails fast and never reaches the state in which it serves RPC calls.
C13_FailsFastWithoutDevice ==
  main.serial_conn = "None" => main.pc # "serving"

\* C13, amended: a failure to find or open the device does not stop the
\* process.  Startup has one course, open (or fail to open) the device,
\* then start the server, then serve; whether or not the device was
\* opened, the next step of main after the attempt is the server's start.
C13_TestModeStillServes ==
  [][/\ main.pc = "start" => main'.pc \in {"start", "opened"}
     /\ main.pc = "opened" => main'.pc \in {"opened", "serving"}
     /\ main.pc = "serving" => main' = main
     /\ main'.pc \in {"start", "opened", "serving"}
     /\ main'.pc = "serving" => serial' # "unset"]_vars

\* The device was not opened and a call has been served all the same.
C13_Witness ==
  /\ main = [pc |-> "serving", serial_conn |-> "None"]
  /\ ncalls >= 1
  /\ last.op = "Send" /\ last.key = KeyA

\* C14: a timer's firing writes the KeyUp and clears the key's liveness in
\* one step: in no state has a timer written its KeyUp and still counts as
\* live, and so a SendKey(K, d) that arrives after the KeyUp of K's timer
\* is never dropped as a no-op: it writes a KeyDown.
C14_FireClearsLiveness ==
  [][/\ \A t \in DOMAIN timers' :
          timers'[t].upIdx # 0 => timers'[t].st = "dead"
     /\ (/\ Served("Send")
         /\ last'.key \in TableKeys
         /\ Waiting(keys_map[last'.key]) = {})
        => wire' = Append(wire, <<KEY_DOWN, keys_map[last'.key]>>)]_vars

\* C15: once armed, a release timer always fires and nothing cancels it:
\* a waiting timer leaves that state only by writing its KeyUp, and under
\* fair scheduling every timer armed by SendKey eventually has written
\* KeyUp(code) after its KeyDown and has stopped being live, whatever
\* commands arrive meanwhile.
C15_ArmedTimerFires ==
  /\ [][\A t \in DOMAIN timers :
          timers[t].st = "waiting"
            => \/ timers'[t] = timers[t]
               \/ /\ timers'[t].st = "fired"
                  /\ wire' = Append(wire, <<KEY_UP, timers[t].code>>)]_vars
  /\ \A t \in 1..MaxCalls :
       [](t \in DOMAIN timers
            => <>(/\ t \in DOMAIN timers
                  /\ timers[t].st = "dead"
                  /\ timers[t].upIdx > timers[t].downIdx
                  /\ wire[timers[t].downIdx] = <<KEY_DOWN, timers[t].code>>
                  /\ wire[timers[t].upIdx] = <<KEY_UP, timers[t].code>>))

\* A timer has fired and ended although another frame was written between
\* its KeyDown and its KeyUp.
C15_Witness ==
  \E t \in DOMAIN timers :
    /\ timers[t].st = "dead"
    /\ timers[t].upIdx > timers[t].downIdx + 1
    /\ wire[timers[t].upIdx] = <<KEY_UP, timers[t].code>>

\* The timer filed for device code c ended with a failed write: it is dead
\* and never wrote its KeyUp.
FailedTimer(c) ==
  /\ timers_map[c] # None
  /\ timers[timers_map[c]].st = "dead"
  /\ timers[timers_map[c]].upIdx = 0

C17_ScrollAfterMove ==
  [][/\ (Served("SendMouse") /\ last'.action = "ScrollDown")
        => /\ Len(wire') = Len(wire) + 1
           /\ SubSeq(wire', 1, Len(wire)) = wire
           /\ Len(wire'[Len(wire')]) = 5
           /\ wire'[Len(wire')][1] = 3
           /\ call' = [pc |-> "settle", action |-> "ScrollDown",
                       moveIdx |-> Len(wire')]
     /\ (call.pc = "settle" /\ call.action = "ScrollDown" /\ call'.pc = "idle")
        => wire' = Append(wire, <<5, 232, 3>>)
     /\ (Len(wire') > Len(wire) /\ wire'[Len(wire')][1] = 5)
        => /\ call.pc = "settle" /\ call.action = "ScrollDown"
           /\ call'.pc = "idle"
           /\ wire[call.moveIdx][1] = 3]_vars

\* C18: only SendKey changes the key-state tracker: Init, SendKeyUp,
\* SendKeyDown and SendMouse (both of its writes) create, replace and
\* cancel no timer; timers and timers_map are the same after as before.
C18_OnlySendTouchesTimers ==
  [][(\/ Served("Init") \/ Served("SendUp") \/ Served("SendDown")
      \/ Served("SendMouse")
      \/ (call.pc = "settle" /\ call'.pc = "idle"))
     => (timers' = timers /\ timers_map' = timers_map)]_vars

\* SendKeyUp was served while the timer of Key.A was waiting, and the timer
\* is as SendKey left it.
C18_Witness ==
  /\ last.op = "SendUp"
  /\ last.key \in {KeyA, KeyOutOfEnum}
  /\ Len(timers) = 1
  /\ timers[1] = [code |-> 97, interval |-> 50, st |-> "waiting",
                  downIdx |-> 1, upIdx |-> 0]
  /\ timers_map[97] = 1

\* C19: keys are independent: whether SendKeyUp(K) or SendKeyDown(K)
\* writes its frame depends only on whether K's own timer is live.  The
\* call writes nothing exactly when a timer armed by SendKey(K, d) is live;
\* a live timer of another key never suppresses it.
C19_KeysIndependent ==
  [][((Served("SendUp") \/ Served("SendDown")) /\ last'.key \in TableKeys)
     => ((wire' = wire) <=> (Live(keys_map[last'.key]) # {}))]_vars

\* The key frames of code c on the wire, in the order they were written.
KeyFramesFor(c) == SelectSeq(wire, LAMBDA f : IsKeyFrameFor(f, c))

\* C20: when SendKey is the only key command and every serial write
\* succeeds, the key frames of each code alternate KeyDown, KeyUp, KeyDown,
\* KeyUp, ... starting with KeyDown: never two KeyDown nor two KeyUp frames
\* in a row for the same code.
C20_KeyFramesAlternate ==
  \A c \in Codes :
    \A i \in 1..Len(KeyFramesFor(c)) :
      KeyFramesFor(c)[i][1] = IF i % 2 = 1 THEN KEY_DOWN ELSE KEY_UP

\* Key.A was pressed twice by SendKey and released twice by its timers.
C20_Witness ==
  KeyFramesFor(97) = << KeyDownFrame(97), KeyUpFrame(97),
                        KeyDownFrame(97), KeyUpFrame(97) >>

====
